---- MODULE Spec2Model ----
(***************************************************************************)
(* Model of the pystructurizr command line pipeline:                       *)
(*   src/pystructurizr/cli.py         dev, build, upload                   *)
(*   src/pystructurizr/cli_helper.py  generate_diagram_code_in_child_      *)
(*                                    process, generate_svg                *)
(* The watcher (pystructurizr.cli_watcher.observe_modules) is imported by  *)
(* cli.py but its source is not part of the tree; it is modelled from      *)
(* section 4.4 of the specification.                                       *)
(*                                                                         *)
(* A path is a sequence of name components relative to the working         *)
(* directory (<<>> is the working directory itself).  A file's content is  *)
(* the sequence of chunks written to it since it was last truncated.       *)
(***************************************************************************)
EXTENDS Integers, Sequences, FiniteSets, TLC

\* ------------------------------------------------------------------ bounds
\* number of watcher-triggered rebuilds explored in one dev invocation
MaxRebuilds == 2
\* number of source-file modifications explored in one dev invocation
MaxChanges == 2

\* ------------------------------------------------------- input universes
\* view identifiers, as sequences of characters (dotted module paths)
Views == { <<"v">>, <<"a", ".", "b", ".", "c">> }
\* modules a generation may report as imported
Modules == {"X", "Y", "Z"}
ModuleSets == { {"X"}, {"X", "Y"}, {"X", "Z"} }
\* diagram code blobs a generation may return
Codes == {"code1", "code2"}
\* bodies the rendering service may answer with
SvgBodies == {"<svg1/>", "<svg2/>"}
ErrorBodies == {"", "bad syntax"}
\* names the user wrote with the .svg suffix, i.e. meant as file names
SvgFileNames == {"d.svg"}

None == <<>>
EmptyDict == [k \in {} |-> <<>>]
Dir == [kind |-> "dir", content |-> <<>>]
File(c) == [kind |-> "file", content |-> c]
OldFile == File(<<"old">>)

\* ------------------------------------------------------------ path helpers
\* pathlib.Path.parent
Parent(p) == IF p = <<>> THEN <<>> ELSE SubSeq(p, 1, Len(p) - 1)
\* pathlib.Path.name
Basename(p) == p[Len(p)]
\* pathlib.Path.__truediv__
Join(p, name) == Append(p, name)
Prefixes(p) == { SubSeq(p, 1, i) : i \in 1..Len(p) }

exists(f, p) == p = <<>> \/ p \in DOMAIN f
is_file(f, p) == p \in DOMAIN f /\ f[p].kind = "file"
is_dir(f, p) == p = <<>> \/ (p \in DOMAIN f /\ f[p].kind = "dir")

\* f with path p bound to entry e
Put(f, p, e) == [q \in DOMAIN f \cup {p} |-> IF q = p THEN e ELSE f[q]]
\* f without the names in S
Drop(f, S) == [q \in DOMAIN f \ S |-> f[q]]

\* str.replace(".", "_") followed by the f-string join of the characters
RECURSIVE replace_dots(_)
replace_dots(s) ==
    IF s = <<>> THEN ""
    ELSE (IF Head(s) = "." THEN "_" ELSE Head(s)) \o replace_dots(Tail(s))

\* the view identifier as typed, characters joined unchanged
RECURSIVE view_name(_)
view_name(s) == IF s = <<>> THEN "" ELSE Head(s) \o view_name(Tail(s))

\* Path.mkdir(parents=True, exist_ok=True): the file system afterwards, or
\* the error raised
mkdir_not_exist_ok(f, p) ==
    IF exists(f, p) THEN [ok |-> FALSE, fs |-> f, err |-> "FileExistsError"]
    ELSE IF \E q \in Prefixes(p) : is_file(f, q)
         THEN [ok |-> FALSE, fs |-> f, err |-> "NotADirectoryError"]
    ELSE [ok |-> TRUE,
          fs |-> [q \in DOMAIN f \cup Prefixes(p) |->
                     IF q \in DOMAIN f THEN f[q] ELSE Dir],
          err |-> "none"]

mkdir(f, p) ==
    IF is_dir(f, p) THEN [ok |-> TRUE, fs |-> f, err |-> "none"]
    ELSE IF exists(f, p) THEN [ok |-> FALSE, fs |-> f, err |-> "FileExistsError"]
    ELSE IF \E q \in Prefixes(p) : is_file(f, q)
         THEN [ok |-> FALSE, fs |-> f, err |-> "NotADirectoryError"]
    ELSE [ok |-> TRUE,
          fs |-> [q \in DOMAIN f \cup Prefixes(p) |->
                     IF q \in DOMAIN f THEN f[q] ELSE Dir],
          err |-> "none"]

\* shutil.move: the path the source really lands on
real_dst(f, dst) == IF is_dir(f, dst) THEN Join(dst, "diagram.svg") ELSE dst


\* ------------------------------------------------------------------ state
VARIABLES
    cmd,              \* the command invoked: "build" or "dev"
    view,             \* VIEW argument
    file_path,        \* FILE_PATH argument of build
    chained,          \* TRUE when `upload` is chained after build
    fs0,              \* the user's file system as the command found it
    pc,               \* position of the command function
    cyc,              \* position of the async_behavior coroutine in flight
    tmp_folder,       \* the TemporaryDirectory: [exists, files]
    fs,               \* the user's file system: path -> entry
    diagram_code,     \* local of async_behavior
    imported_modules, \* the modules the latest generation returned (dev)
    resp,             \* local of generate_svg: the HTTP response
    svg_file_path,    \* local of build.async_behavior
    base_dir,         \* local of build.async_behavior
    ctx_obj,          \* ctx.obj, the chain context
    stdout,           \* what was printed, oldest first
    error,            \* the exception that ended the command, or "none"
    uploaded,         \* the path handed to cloud_storage.upload_file, or None
    watcher,          \* observe_modules: "off", "watching" or "triggered"
    watchSet,         \* observe_modules: module -> last observed signature
    mtime,            \* modification signature of every module's source
    server,           \* number of httpwatcher processes launched
    cycle,            \* number of async_behavior calls started
    inflight,         \* number of async_behavior calls started and not ended
    log,              \* history of pipeline events, oldest first
    last_svg,         \* the text the latest completed generate_svg wrote
    src_read,         \* the source signatures the latest generation read
    moved_to          \* the path shutil.move put the artifact on, or None

inputs == <<cmd, view, file_path, chained, fs0>>
hist == <<last_svg, src_read, moved_to>>
locals == <<diagram_code, imported_modules, resp, svg_file_path, base_dir>>
vars == <<cmd, view, file_path, chained, fs0, moved_to, pc, cyc, tmp_folder, fs,
          diagram_code,
          imported_modules, resp, svg_file_path, base_dir, ctx_obj, stdout,
          error, uploaded, watcher, watchSet, mtime, server, cycle, inflight,
          log, last_svg, src_read>>

NoResp == [status_code |-> 0, text |-> ""]
NoTmp == [exists |-> FALSE, files |-> EmptyDict]

\* file systems and destinations a build may be started with
Scenarios(v) ==
    LET T == replace_dots(v) \o ".svg"
        E == EmptyDict
        OutDir == Put(E, <<"out">>, Dir)
    IN  { [fp |-> <<"out">>, fs |-> E],
          [fp |-> <<"out">>, fs |-> OutDir],
          [fp |-> <<"out">>, fs |-> Put(OutDir, <<"out", T>>, OldFile)],
          [fp |-> <<"out">>, fs |-> Put(OutDir, <<"out", T>>, Dir)],
          [fp |-> <<"out">>,
           fs |-> Put(Put(OutDir, <<"out", T>>, Dir),
                      <<"out", T, "diagram.svg">>, OldFile)],
          [fp |-> <<"out">>, fs |-> Put(E, <<"out">>, OldFile)],
          [fp |-> <<"d.svg">>, fs |-> E],
          [fp |-> <<"d.svg">>, fs |-> Put(E, <<"d.svg">>, OldFile)],
          [fp |-> <<"a", "b", "c">>, fs |-> E],
          [fp |-> <<"a", "b", "c">>, fs |-> Put(E, <<"a">>, Dir)],
          [fp |-> <<"f", "x">>, fs |-> Put(E, <<"f">>, OldFile)] }

Init ==
    /\ cmd \in {"build", "dev"}
    /\ view \in Views
    /\ IF cmd = "build"
       THEN /\ \E sc \in Scenarios(view) : file_path = sc.fp /\ fs = sc.fs
            /\ chained \in BOOLEAN
       ELSE /\ file_path = <<>>
            /\ fs = EmptyDict
            /\ chained = FALSE
    /\ fs0 = fs
    /\ moved_to = None
    /\ pc = "start"
    /\ cyc = "none"
    /\ tmp_folder = NoTmp
    /\ diagram_code = ""
    /\ imported_modules = {}
    /\ resp = NoResp
    /\ svg_file_path = <<>>
    /\ base_dir = <<>>
    /\ ctx_obj = EmptyDict
    /\ stdout = <<>>
    /\ error = "none"
    /\ uploaded = None
    /\ watcher = "off"
    /\ watchSet = EmptyDict
    /\ mtime = [m \in Modules |-> 0]
    /\ server = 0
    /\ cycle = 0
    /\ inflight = 0
    /\ log = <<>>
    /\ last_svg = ""
    /\ src_read = [m \in Modules |-> 0]


\* ------------------------------------------- leaving the command on error
\* TemporaryDirectory.__exit__: the directory and all it holds are removed
LeaveDirectoryBehind(t) == t

TemporaryDirectory_exit(t) == NoTmp

\* an exception leaves the `with tempfile.TemporaryDirectory()` block and the
\* command: the directory is cleaned up and the process ends with the error
Abort(e, out, evs, nfs) ==
    /\ pc' = "exited"
    /\ cyc' = "none"
    /\ error' = e
    /\ tmp_folder' = TemporaryDirectory_exit(tmp_folder)
    /\ fs' = nfs
    /\ stdout' = stdout \o out \o <<"Error: " \o e>>
    /\ log' = log \o evs
    /\ inflight' = 0
    /\ watcher' = "off"
    /\ diagram_code' = ""
    /\ resp' = NoResp
    /\ UNCHANGED <<inputs, hist, imported_modules, svg_file_path, base_dir,
                   ctx_obj, uploaded, watchSet, mtime, server, cycle>>

\* observe_modules: the watch set built fresh from a module set
fresh_watch_set(mods) == [m \in mods |-> mtime[m]]

\* observe_modules, when onChange raised: the error is reported, the loop
\* goes on watching the module set it had
on_change_error_fatal(e, out, evs, tfiles) ==
    Abort(e, out, evs \o <<"cycle_fail">>, fs)

on_change_error_stop(e, out, evs, tfiles) ==
    /\ watcher' = "off"
    /\ pc' = "exited"
    /\ cyc' = "none"
    /\ stdout' = stdout \o out \o <<"Error: " \o e>>
    /\ log' = log \o evs \o <<"cycle_fail">>
    /\ inflight' = inflight - 1
    /\ tmp_folder' = TemporaryDirectory_exit(tmp_folder)
    /\ diagram_code' = ""
    /\ resp' = NoResp
    /\ UNCHANGED <<inputs, hist, imported_modules, fs, svg_file_path,
                   base_dir, ctx_obj, error, uploaded, watchSet, mtime, server,
                   cycle>>

on_change_error(e, out, evs, tfiles) ==
    /\ watcher' = "watching"
    /\ watchSet' = fresh_watch_set(DOMAIN watchSet)
    /\ cyc' = "none"
    /\ stdout' = stdout \o out \o <<"Error: " \o e>>
    /\ log' = log \o evs \o <<"cycle_fail">>
    /\ inflight' = inflight - 1
    /\ tmp_folder' = [tmp_folder EXCEPT !.files = tfiles]
    /\ diagram_code' = ""
    /\ resp' = NoResp
    /\ UNCHANGED <<inputs, hist, imported_modules, pc, fs, svg_file_path,
                   base_dir, ctx_obj, error, uploaded, mtime, server, cycle>>

\* an exception raised inside async_behavior: it reaches the watcher when the
\* watcher called async_behavior, and the command otherwise
Raise(e, out, evs, tfiles, nfs) ==
    IF watcher = "triggered"
    THEN on_change_error(e, out, evs, tfiles)
    ELSE Abort(e, out, evs \o <<"cycle_fail">>, nfs)

\* ----------------------------------------------------------- generation
GoodDicts == { [code |-> c, imported_modules |-> S] : c \in Codes, S \in ModuleSets }
\* a record with both fields and nothing in them
EmptyRecord == [code |-> "", imported_modules |-> {}]
BadDicts == { EmptyDict, [code |-> "code1"], [imported_modules |-> {"X"}] }
\* what the generator child process may do: exit status and standard output
ChildOutputs ==
    { [returncode |-> 1, json |-> FALSE, obj |-> EmptyDict],
      [returncode |-> 0, json |-> FALSE, obj |-> EmptyDict] }
    \cup { [returncode |-> 0, json |-> TRUE, obj |-> d] :
                d \in GoodDicts \cup BadDicts \cup {EmptyRecord} }

generate_diagram_code_in_child_process(child) ==
    IF child.returncode # 0 THEN [err |-> "CalledProcessError"]
    ELSE IF ~child.json THEN [err |-> "JSONDecodeError"]
    ELSE IF "code" \notin DOMAIN child.obj THEN [err |-> "KeyError"]
    ELSE IF "imported_modules" \notin DOMAIN child.obj THEN [err |-> "KeyError"]
    ELSE [err |-> "none", code |-> child.obj.code,
          imported_modules |-> child.obj.imported_modules]

\* the generator runs in a new child process each time, so it reads the
\* sources as they are now
sources_cached(prev) == prev

sources_read(prev) == mtime

\* async_behavior up to its first await: the generation call
Generate ==
    /\ cyc = "gen"
    /\ \E child \in ChildOutputs :
        LET r == generate_diagram_code_in_child_process(child)
            out == IF cmd = "dev" THEN <<"Generating diagram...">> ELSE <<>>
        IN  IF r.err # "none"
            THEN Raise(r.err, out, <<"gen_fail">>, tmp_folder.files, fs)
            ELSE /\ diagram_code' = r.code
                 /\ imported_modules' = IF cmd = "dev" THEN r.imported_modules ELSE {}
                 /\ cyc' = "post"
                 /\ stdout' = stdout \o out
                 /\ log' = Append(log, "gen_ok")
                 /\ src_read' = sources_read(src_read)
                 /\ UNCHANGED <<inputs, last_svg, moved_to, pc, tmp_folder, fs,
                                resp, svg_file_path,
                                base_dir, ctx_obj, error, uploaded, watcher,
                                watchSet, mtime, server, cycle, inflight>>


\* -------------------------------------------------------------- rendering
\* the answers of the rendering service to one POST
Responses ==
    { [status_code |-> 200, text |-> b] : b \in SvgBodies }
    \cup { [status_code |-> 500, text |-> b] : b \in ErrorBodies }

\* generate_svg: client.post is sent and the coroutine awaits the answer
PostSend_no_await ==
    /\ cyc = "post"
    /\ cyc' = IF cmd = "build" THEN "resolve" ELSE "await_post"
    /\ log' = Append(log, "render_start")
    /\ UNCHANGED <<inputs, hist, pc, tmp_folder, fs, locals, ctx_obj, stdout,
                   error, uploaded, watcher, watchSet, mtime, server, cycle,
                   inflight>>

PostSend ==
    /\ cyc = "post"
    /\ cyc' = "await_post"
    /\ log' = Append(log, "render_start")
    /\ UNCHANGED <<inputs, hist, pc, tmp_folder, fs, locals, ctx_obj, stdout, error,
                   uploaded, watcher, watchSet, mtime, server, cycle, inflight>>

\* generate_svg: the answer arrives (or the service is unreachable) and the
\* status is checked
PostReceive_open_first ==
    /\ cyc = "await_post"
    /\ \/ Raise("ConnectError", <<>>, <<"render_fail">>, tmp_folder.files, fs)
       \/ \E r \in Responses :
            IF r.status_code # 200
            THEN Raise("Failed to create diagram",
                       <<"<Response [500]>">> \o
                           (IF r.text # "" THEN <<r.text>> ELSE <<>>),
                       <<"render_fail">>,
                       Put(tmp_folder.files, "diagram.svg", <<>>), fs)
            ELSE /\ resp' = r
                 /\ cyc' = "open"
                 /\ UNCHANGED <<inputs, hist, pc, tmp_folder, fs, diagram_code,
                                imported_modules, svg_file_path, base_dir,
                                ctx_obj, stdout, error, uploaded, watcher,
                                watchSet, mtime, server, cycle, inflight, log>>

PostReceive ==
    /\ cyc = "await_post"
    /\ \/ Raise("ConnectError", <<>>, <<"render_fail">>, tmp_folder.files, fs)
       \/ \E r \in Responses :
            IF r.status_code # 200
            THEN Raise("Failed to create diagram",
                       <<"<Response [500]>">> \o
                           (IF r.text # "" THEN <<r.text>> ELSE <<>>),
                       <<"render_fail">>, tmp_folder.files, fs)
            ELSE /\ resp' = r
                 /\ cyc' = "open"
                 /\ UNCHANGED <<inputs, hist, pc, tmp_folder, fs, diagram_code,
                                imported_modules, svg_file_path, base_dir,
                                ctx_obj, stdout, error, uploaded, watcher,
                                watchSet, mtime, server, cycle, inflight, log>>

\* open(name, "w"): the file is created, or truncated when it exists
open_a(files, name) ==
    IF name \in DOMAIN files THEN files ELSE Put(files, name, <<>>)

open_w(files, name) == Put(files, name, <<>>)

\* file.write(text) on a file open for writing
write(files, name, text) == Put(files, name, Append(files[name], text))

\* generate_svg: aiofiles.open(svg_file_path, "w")
OpenSvg ==
    /\ cyc = "open"
    /\ tmp_folder' = [tmp_folder EXCEPT !.files = open_w(@, "diagram.svg")]
    /\ cyc' = "write"
    /\ UNCHANGED <<inputs, hist, pc, fs, locals, ctx_obj, stdout, error, uploaded,
                   watcher, watchSet, mtime, server, cycle, inflight, log>>

\* observe_modules, when onChange returned a module set: back to watching,
\* with the watch set rebuilt from that set
on_change_return(mods) ==
    /\ watcher' = "watching"
    /\ watchSet' = fresh_watch_set(mods)

\* generate_svg: svg_file.write(resp.text), the file is closed and its path
\* returned; async_behavior then goes on (build) or returns imported_modules
\* to its caller (dev)
WriteSvg ==
    /\ cyc = "write"
    /\ tmp_folder' = [tmp_folder EXCEPT
                        !.files = write(@, "diagram.svg", resp.text)]
    /\ last_svg' = resp.text
    /\ resp' = NoResp
    /\ diagram_code' = ""
    /\ UNCHANGED <<inputs, src_read, moved_to, imported_modules, fs, svg_file_path,
                   base_dir, ctx_obj, stdout, error, uploaded, mtime, server,
                   cycle>>
    /\ IF cmd = "build"
       THEN /\ cyc' = "resolve"
            /\ log' = Append(log, "render_ok")
            /\ UNCHANGED <<pc, watcher, watchSet, inflight>>
       ELSE /\ cyc' = "none"
            /\ log' = log \o <<"render_ok", "cycle_ok">>
            /\ inflight' = inflight - 1
            /\ IF pc = "first"
               THEN /\ pc' = "launch"
                    /\ UNCHANGED <<watcher, watchSet>>
               ELSE /\ on_change_return(imported_modules)
                    /\ UNCHANGED pc


\* ------------------------------------------------------ output placement
\* str(path)
RECURSIVE path_str(_)
path_str(p) ==
    IF p = <<>> THEN "."
    ELSE IF Len(p) = 1 THEN p[1]
    ELSE p[1] \o "/" \o path_str(Tail(p))

\* build.async_behavior: the destination resolved against file system f
resolve_exists(f, fp, v) ==
    IF exists(f, fp)
    THEN [base_dir |-> Parent(fp), svg_file_path |-> fp]
    ELSE [base_dir |-> fp,
          svg_file_path |-> Join(fp, replace_dots(v) \o ".svg")]

resolve(f, fp, v) ==
    IF is_file(f, fp)
    THEN [base_dir |-> Parent(fp), svg_file_path |-> fp]
    ELSE [base_dir |-> fp,
          svg_file_path |-> Join(fp, replace_dots(v) \o ".svg")]

Resolve ==
    /\ cyc = "resolve"
    /\ LET r == resolve(fs, file_path, view)
       IN  /\ base_dir' = r.base_dir
           /\ svg_file_path' = r.svg_file_path
    /\ cyc' = "mkdir"
    /\ log' = Append(log, "place_start")
    /\ UNCHANGED <<inputs, hist, pc, tmp_folder, fs, diagram_code, imported_modules,
                   resp, ctx_obj, stdout, error, uploaded, watcher, watchSet,
                   mtime, server, cycle, inflight>>

\* base_dir.mkdir(parents=True, exist_ok=True); the operating system may
\* also refuse it
Mkdir ==
    /\ cyc = "mkdir"
    /\ LET r == mkdir(fs, base_dir)
       IN  \/ Raise(IF r.ok THEN "PermissionError" ELSE r.err, <<>>,
                    <<"place_fail">>, tmp_folder.files, fs)
           \/ /\ r.ok
              /\ fs' = r.fs
              /\ cyc' = "move"
              /\ UNCHANGED <<inputs, hist, pc, tmp_folder, locals, ctx_obj, stdout,
                             error, uploaded, watcher, watchSet, mtime, server,
                             cycle, inflight, log>>

\* ways shutil.move can go: os.rename works; os.rename is refused; the
\* destination is on another file system and the copy completes, or fails
\* after the destination was opened for writing
MoveOutcomes == {"rename", "denied", "copy", "copy_fail"}

\* shutil.move(src, dst) of the temporary diagram.svg
shutil_move_to_base_dir(f, files, dst, outcome) ==
    LET real == Join(Parent(dst), "diagram.svg")
    IN  IF outcome = "denied"
        THEN [err |-> "PermissionError", fs |-> f, files |-> files]
        ELSE [err |-> "none",
              fs |-> Put(f, real, File(files["diagram.svg"])),
              files |-> Drop(files, {"diagram.svg"})]

shutil_move(f, files, dst, outcome) ==
    LET real == real_dst(f, dst)
    IN  IF is_dir(f, dst) /\ exists(f, real)
        THEN [err |-> "shutil.Error", fs |-> f, files |-> files]
        ELSE IF outcome = "denied"
        THEN [err |-> "PermissionError", fs |-> f, files |-> files]
        ELSE IF outcome = "copy_fail"
        THEN [err |-> "OSError", fs |-> Put(f, real, File(<<>>)), files |-> files]
        ELSE [err |-> "none",
              fs |-> Put(f, real, File(files["diagram.svg"])),
              files |-> Drop(files, {"diagram.svg"})]

Move ==
    /\ cyc = "move"
    /\ \E outcome \in MoveOutcomes :
        LET r == shutil_move(fs, tmp_folder.files, svg_file_path, outcome)
        IN  IF r.err # "none"
            THEN Raise(r.err, <<>>, <<"place_fail">>, r.files, r.fs)
            ELSE /\ fs' = r.fs
                 /\ tmp_folder' = [tmp_folder EXCEPT !.files = r.files]
                 /\ cyc' = "store"
                 /\ moved_to' = <<real_dst(fs, svg_file_path)>>
                 /\ UNCHANGED <<inputs, last_svg, src_read, pc, locals, ctx_obj,
                                stdout, error, uploaded, watcher, watchSet,
                                mtime, server, cycle, inflight, log>>

\* the end of build: the path is stored in ctx.obj and printed, asyncio.run
\* returns, the `with` block is left, and click goes on to the chained
\* subcommand when there is one
Store ==
    /\ cyc = "store"
    /\ ctx_obj' = [k \in {"svg_file_path"} |-> svg_file_path]
    /\ stdout' = Append(stdout, path_str(svg_file_path))
    /\ tmp_folder' = TemporaryDirectory_exit(tmp_folder)
    /\ cyc' = "none"
    /\ inflight' = inflight - 1
    /\ log' = log \o <<"place_ok", "cycle_ok">>
    /\ pc' = IF chained THEN "upload" ELSE "exited"
    /\ UNCHANGED <<inputs, hist, fs, locals, error, uploaded, watcher, watchSet,
                   mtime, server, cycle>>

\* ------------------------------------------------------------------ upload
upload_file_path ==
    /\ pc = "upload"
    /\ pc' = "exited"
    /\ \E ok \in BOOLEAN :
        /\ uploaded' = <<file_path>>
        /\ stdout' = stdout \o <<"Uploading " \o path_str(file_path)>>
                            \o (IF ok THEN <<"https://url">> ELSE <<"Error: UploadError">>)
        /\ error' = IF ok THEN "none" ELSE "UploadError"
    /\ UNCHANGED <<inputs, hist, cyc, tmp_folder, fs, locals, ctx_obj, watcher,
                   watchSet, mtime, server, cycle, inflight, log>>

upload_consumes_file ==
    /\ pc = "upload"
    /\ pc' = "exited"
    /\ \E ok \in BOOLEAN :
        LET path == ctx_obj["svg_file_path"]
        IN  /\ uploaded' = <<path>>
            /\ fs' = Drop(fs, {path})
            /\ stdout' = stdout \o <<"Uploading " \o path_str(path)>>
                           \o (IF ok THEN <<"https://url">>
                                     ELSE <<"Error: UploadError">>)
            /\ error' = IF ok THEN "none" ELSE "UploadError"
    /\ UNCHANGED <<inputs, hist, cyc, tmp_folder, locals, ctx_obj, watcher,
                   watchSet, mtime, server, cycle, inflight, log>>

upload ==
    /\ pc = "upload"
    /\ pc' = "exited"
    /\ IF "svg_file_path" \notin DOMAIN ctx_obj
       THEN /\ error' = "KeyError"
            /\ stdout' = Append(stdout, "Error: KeyError")
            /\ UNCHANGED uploaded
       ELSE \E ok \in BOOLEAN :
            LET path == ctx_obj["svg_file_path"]
            IN  /\ uploaded' = <<path>>
                /\ stdout' = stdout \o <<"Uploading " \o path_str(path)>>
                               \o (IF ok THEN <<"https://url">>
                                         ELSE <<"Error: UploadError">>)
                /\ error' = IF ok THEN "none" ELSE "UploadError"
    /\ UNCHANGED <<inputs, hist, cyc, tmp_folder, fs, locals, ctx_obj, watcher,
                   watchSet, mtime, server, cycle, inflight, log>>


\* ----------------------------------------------------------- entry points
\* build: the temporary directory is created and asyncio.run starts
\* async_behavior
build ==
    /\ cmd = "build"
    /\ pc = "start"
    /\ tmp_folder' = [exists |-> TRUE, files |-> EmptyDict]
    /\ pc' = "run"
    /\ cyc' = "gen"
    /\ cycle' = cycle + 1
    /\ inflight' = inflight + 1
    /\ log' = Append(log, "cycle_start")
    /\ UNCHANGED <<inputs, hist, fs, locals, ctx_obj, stdout, error, uploaded,
                   watcher, watchSet, mtime, server>>

\* dev: the temporary directory is created, index.html copied into it, and
\* asyncio.run starts observe_loop, which awaits the first async_behavior
dev_launch_first ==
    /\ cmd = "dev"
    /\ pc = "start"
    /\ tmp_folder' = [exists |-> TRUE,
                      files |-> Put(EmptyDict, "index.html", <<"index">>)]
    /\ stdout' = stdout \o <<"Setting up live preview...", "Launching webserver...">>
    /\ server' = server + 1
    /\ pc' = "first"
    /\ cyc' = "gen"
    /\ cycle' = cycle + 1
    /\ inflight' = inflight + 1
    /\ log' = Append(log, "cycle_start")
    /\ UNCHANGED <<inputs, hist, fs, locals, ctx_obj, error, uploaded, watcher,
                   watchSet, mtime>>

dev ==
    /\ cmd = "dev"
    /\ pc = "start"
    /\ tmp_folder' = [exists |-> TRUE,
                      files |-> Put(EmptyDict, "index.html", <<"index">>)]
    /\ stdout' = Append(stdout, "Setting up live preview...")
    /\ pc' = "first"
    /\ cyc' = "gen"
    /\ cycle' = cycle + 1
    /\ inflight' = inflight + 1
    /\ log' = Append(log, "cycle_start")
    /\ UNCHANGED <<inputs, hist, fs, locals, ctx_obj, error, uploaded, watcher,
                   watchSet, mtime, server>>

\* observe_loop after the first async_behavior returned: the webserver is
\* launched and observe_modules is called with the returned modules
observe_loop_no_await ==
    /\ pc = "first"
    /\ watcher = "off"
    /\ cyc \in {"post", "await_post", "open", "write"}
    /\ watcher' = "watching"
    /\ watchSet' = fresh_watch_set(imported_modules)
    /\ server' = server + 1
    /\ UNCHANGED <<inputs, hist, pc, cyc, tmp_folder, fs, locals, ctx_obj, stdout,
                   error, uploaded, mtime, cycle, inflight, log>>

observe_loop ==
    /\ pc = "launch"
    /\ stdout' = Append(stdout, "Launching webserver...")
    /\ server' = server + 1
    /\ pc' = "observing"
    /\ watcher' = "watching"
    /\ watchSet' = fresh_watch_set(imported_modules)
    /\ UNCHANGED <<inputs, hist, cyc, tmp_folder, fs, locals, ctx_obj, error,
                   uploaded, mtime, cycle, inflight, log>>

\* ------------------------------------------------------------ the watcher
\* observe_modules, watching: a module of the watch set whose signature
\* differs from the one observed is a modification
modified == { m \in DOMAIN watchSet : mtime[m] # watchSet[m] }

\* observe_modules: a modification is detected and onChange (async_behavior)
\* is invoked and awaited
Trigger ==
    /\ watcher = "watching"
    /\ modified # {}
    /\ cycle < 1 + MaxRebuilds
    /\ watcher' = "triggered"
    /\ cyc' = "gen"
    /\ cycle' = cycle + 1
    /\ inflight' = inflight + 1
    /\ log' = Append(log, "cycle_start")
    /\ UNCHANGED <<inputs, hist, pc, tmp_folder, fs, locals, ctx_obj, stdout, error,
                   uploaded, watchSet, mtime, server>>

\* ------------------------------------------------------- the environment
changes == mtime["X"] + mtime["Y"] + mtime["Z"]

\* the user saves the source file of module m while dev runs
FileChange(m) ==
    /\ cmd = "dev"
    /\ pc \in {"first", "launch", "observing"}
    /\ changes < MaxChanges
    /\ mtime' = [mtime EXCEPT ![m] = @ + 1]
    /\ UNCHANGED <<inputs, hist, pc, cyc, tmp_folder, fs, locals, ctx_obj, stdout,
                   error, uploaded, watcher, watchSet, server, cycle, inflight,
                   log>>

\* the user interrupts the watch loop: KeyboardInterrupt leaves asyncio.run
\* and the `with` block
Cancel ==
    /\ pc = "observing"
    /\ Abort("KeyboardInterrupt", <<>>, <<"cancelled">>, fs)

\* ------------------------------------------------------------ the system
Next ==
    \/ build
    \/ dev
    \/ Generate
    \/ PostSend
    \/ PostReceive
    \/ OpenSvg
    \/ WriteSvg
    \/ Resolve
    \/ Mkdir
    \/ Move
    \/ Store
    \/ upload
    \/ observe_loop
    \/ Trigger
    \/ \E m \in Modules : FileChange(m)
    \/ Cancel

Spec == Init /\ [][Next]_vars

TypeOK ==
    /\ cmd \in {"build", "dev"}
    /\ pc \in {"start", "run", "first", "launch", "observing", "upload", "exited"}
    /\ cyc \in {"none", "gen", "post", "await_post", "open", "write",
                "resolve", "mkdir", "move", "store"}
    /\ watcher \in {"off", "watching", "triggered"}
    /\ tmp_folder.exists \in BOOLEAN
    /\ cycle \in 0..(1 + MaxRebuilds)
    /\ inflight \in 0..1
    /\ changes <= MaxChanges


\* ================================================================ claims
\* the event ev was logged before position i, within the cycle position i
\* belongs to
InCycleBefore(i, ev) ==
    \E j \in 1..(i - 1) :
        /\ log[j] = ev
        /\ \A k \in (j + 1)..i : log[k] # "cycle_start"

Has(ev) == \E i \in 1..Len(log) : log[i] = ev
Count(ev) == Cardinality({ i \in 1..Len(log) : log[i] = ev })

\* C1: in every cycle generation has completed before render starts; in
\* build render has completed before placement starts, and placement does
\* not start in a cycle whose generation or render failed; a cycle starts
\* only after the cycle before it has ended.
C1_CycleOrder ==
    \A i \in 1..Len(log) :
        /\ log[i] \in {"gen_ok", "gen_fail"} => log[i - 1] = "cycle_start"
        /\ log[i] = "render_start" => InCycleBefore(i, "gen_ok")
        /\ log[i] \in {"render_ok", "render_fail"} => InCycleBefore(i, "render_start")
        /\ log[i] = "place_start" =>
              /\ cmd = "build"
              /\ InCycleBefore(i, "render_ok")
              /\ ~InCycleBefore(i, "gen_fail")
              /\ ~InCycleBefore(i, "render_fail")
        /\ log[i] \in {"place_ok", "place_fail"} => InCycleBefore(i, "place_start")
        /\ (log[i] = "cycle_start" /\ i > 1) =>
              log[i - 1] \in {"cycle_ok", "cycle_fail"}

\* a build ran generation, render and placement to the end
C1_Witness ==
    /\ cmd = "build"
    /\ log = <<"cycle_start", "gen_ok", "render_start", "render_ok",
               "place_start", "place_ok", "cycle_ok">>

\* C2: in dev mode at most one async_behavior call is in flight, whatever
\* file changes arrive while it runs; a call is in flight exactly while the
\* coroutine has a position.
C2_OneInFlight ==
    /\ inflight <= 1
    /\ (cyc # "none") <=> (inflight = 1)
    /\ watcher = "triggered" => inflight = 1
    /\ watcher = "watching" => inflight = 0

\* a watched file changed while a triggered rebuild was awaiting the
\* rendering service
C2_Witness ==
    /\ cmd = "dev"
    /\ watcher = "triggered"
    /\ cyc = "await_post"
    /\ \E m \in DOMAIN watchSet : mtime[m] > src_read[m]

\* C3: an invocation that has ended has no temporary directory left,
\* however it ended.
C3_TmpRemoved ==
    pc \in {"exited", "upload"} => (~tmp_folder.exists /\ tmp_folder.files = EmptyDict)

\* a dev invocation that had rendered its preview was cancelled
C3_Witness ==
    /\ pc = "exited"
    /\ error = "KeyboardInterrupt"
    /\ Has("render_ok")


\* C4: every completed generate_svg call leaves exactly one artifact,
\* diagram.svg, holding the response body of that call and nothing else; a
\* call that fails writes nothing, so the working directory never holds
\* another artifact and diagram.svg holds the text of the latest successful
\* call (it is empty only between being opened and being written).
C4_OneArtifact ==
    LET files == tmp_folder.files
    IN  /\ DOMAIN files \subseteq {"index.html", "diagram.svg"}
        /\ "diagram.svg" \in DOMAIN files =>
              files["diagram.svg"] = IF cyc = "write" THEN <<>> ELSE <<last_svg>>
        /\ ~Has("render_ok") => (cyc = "write" \/ "diagram.svg" \notin DOMAIN files)
        /\ (cyc \in {"resolve", "mkdir", "move"} \/ pc \in {"launch", "observing"})
              => "diagram.svg" \in DOMAIN files

\* dev: two renders succeeded with different bodies and one failed in
\* between or after; the file holds the later body only
C4_Witness ==
    /\ pc = "observing"
    /\ cyc = "none"
    /\ Count("render_ok") = 2
    /\ Has("render_fail")
    /\ tmp_folder.files["diagram.svg"] = <<"<svg2/>">>

\* the characters of a view with every dot replaced, one by one
Underscored(v) == [i \in 1..Len(v) |-> IF v[i] = "." THEN "_" ELSE v[i]]

\* C5: when the destination exists as a regular file the resolved path is
\* the destination and the target directory its parent; otherwise the
\* target directory is the destination and the resolved path is
\* destination/<view with every dot replaced by an underscore>.svg.
C5_Resolution ==
    cyc = "mkdir" =>
        IF file_path \in DOMAIN fs /\ fs[file_path].kind = "file"
        THEN /\ svg_file_path = file_path
             /\ base_dir = SubSeq(file_path, 1, Len(file_path) - 1)
        ELSE /\ base_dir = file_path
             /\ svg_file_path =
                    file_path \o <<view_name(Underscored(view)) \o ".svg">>

\* a destination that does not exist, resolved for a view with two dots
C5_Witness ==
    /\ cyc = "mkdir"
    /\ file_path = <<"a", "b", "c">>
    /\ svg_file_path = <<"a", "b", "c", "a_b_c.svg">>
    /\ base_dir = <<"a", "b", "c">>

\* C6: build's own documentation: a FILE_PATH that is a file name gets the
\* SVG itself; a FILE_PATH that is a directory gets the SVG inside it, named
\* after the view.
C6_Docstring ==
    "svg_file_path" \in DOMAIN ctx_obj =>
        LET saved == ctx_obj["svg_file_path"]
        IN  IF Basename(file_path) \in SvgFileNames
            THEN saved = file_path /\ is_file(fs, file_path)
            ELSE is_dir(fs, file_path) =>
                    saved = Join(file_path, view_name(Underscored(view)) \o ".svg")


\* a rebuild started by the watcher ends in this step with an error
RebuildFails ==
    /\ watcher = "triggered"
    /\ Len(log') > Len(log)
    /\ log'[Len(log')] = "cycle_fail"

\* a rebuild started by the watcher ends in this step, either way, and the
\* watcher watches again
ReArm == watcher = "triggered" /\ watcher' = "watching"

\* C7: an error of generation or render in a rebuild the watcher started is
\* contained: it is printed, the command and its working directory live on,
\* and the watcher watches the module set it had, with fresh signatures, so
\* that the next change of one of them is a modification again.
C7_ErrorContained ==
    [][RebuildFails =>
         /\ pc' = "observing"
         /\ error' = "none"
         /\ tmp_folder'.exists
         /\ Len(stdout') > Len(stdout)
         /\ watcher' = "watching"
         /\ DOMAIN watchSet' = DOMAIN watchSet
         /\ \A m \in DOMAIN watchSet' : watchSet'[m] = mtime'[m]]_vars

\* after a failed rebuild a later change has started another rebuild
C7_Witness ==
    /\ pc = "observing"
    /\ Has("cycle_fail")
    /\ watcher = "triggered"
    /\ log[Len(log)] = "cycle_start"

\* C8: while watching, the watch set is the module set returned by the
\* latest successful generation.
C8_LatestGeneration ==
    (pc = "observing" /\ watcher = "watching") => DOMAIN watchSet = imported_modules

C10_UploadAfterBuild ==
    /\ pc = "upload" =>
          /\ Has("place_ok")
          /\ error = "none"
          /\ "svg_file_path" \in DOMAIN ctx_obj
    /\ uploaded # None =>
          /\ Has("place_ok")
          /\ "svg_file_path" \in DOMAIN ctx_obj
          /\ uploaded = <<ctx_obj["svg_file_path"]>>
          /\ ctx_obj["svg_file_path"] = svg_file_path
    /\ ~Has("place_ok") => (uploaded = None /\ DOMAIN ctx_obj = {})

\* the uploader was called with a resolved path that is not FILE_PATH
C10_Witness ==
    /\ uploaded # None
    /\ uploaded[1] # file_path
    /\ uploaded[1] = svg_file_path


\* a placement step (mkdir or move) fails in this step
PlaceFails ==
    /\ cyc \in {"mkdir", "move"}
    /\ Len(log') > Len(log)
    /\ log'[Len(log')] = "cycle_fail"

\* C11: a file system error during placement ends the build with the error,
\* and the resolved destination path then either does not exist or holds
\* the complete content it had before.
C11_NoPartialFile ==
    [][PlaceFails =>
         /\ pc' = "exited"
         /\ error' # "none"
         /\ \/ svg_file_path \notin DOMAIN fs'
            \/ /\ svg_file_path \in DOMAIN fs0
               /\ fs'[svg_file_path] = fs0[svg_file_path]]_vars

\* C12: a build whose destination existed as a regular file resolved to that
\* file, and leaves a file system on which the same destination resolves to
\* the same path and directory again; the file was replaced in place, no
\* other file or directory was created.
C12_ResolveIdempotent ==
    (cmd = "build" /\ is_file(fs0, file_path) /\ Has("place_ok")) =>
        /\ svg_file_path = file_path
        /\ resolve(fs, file_path, view) =
              [base_dir |-> base_dir, svg_file_path |-> svg_file_path]
        /\ resolve(fs, file_path, view) = resolve(fs0, file_path, view)
        /\ DOMAIN fs = DOMAIN fs0
        /\ fs[file_path] = File(<<last_svg>>)

\* a build replaced the existing file d.svg
C12_Witness ==
    /\ cmd = "build"
    /\ file_path = <<"d.svg">>
    /\ fs0 = Put(EmptyDict, <<"d.svg">>, OldFile)
    /\ Has("place_ok")
    /\ fs = Put(EmptyDict, <<"d.svg">>, File(<<last_svg>>))


\* C13: a generation that did not fail returned a well-formed diagram: a
\* code blob and, in dev where it is kept, a list naming at least one module.
C13_WellFormedOrError ==
    cyc = "post" =>
        /\ diagram_code \in Codes
        /\ cmd = "dev" => imported_modules \in ModuleSets


Inside(p, d) == Len(p) > Len(d) /\ SubSeq(p, 1, Len(d)) = d

\* C15: after a successful build every directory of the destination chain
\* exists and the artifact is a file inside the destination directory,
\* whether the chain existed before or not; a destination directory that
\* already exists is left as it is by the directory creation and is never
\* the reason the build fails.
C15_DirectoryChain ==
    /\ [](Has("place_ok") =>
            /\ \A q \in Prefixes(base_dir) : is_dir(fs, q)
            /\ is_file(fs, moved_to[1])
            /\ Inside(moved_to[1], base_dir))
    /\ []((cyc = "mkdir" /\ is_dir(fs, base_dir)) =>
            /\ mkdir(fs, base_dir).ok
            /\ mkdir(fs, base_dir).fs = fs)
    /\ [][(cyc = "mkdir" /\ is_dir(fs, base_dir)) =>
            error' \notin {"FileExistsError", "NotADirectoryError"}]_vars

\* a/b/c did not exist at all and the build placed a/b/c/v.svg
C15_Witness ==
    /\ fs0 = EmptyDict
    /\ file_path = <<"a", "b", "c">>
    /\ Has("place_ok")
    /\ \A q \in Prefixes(<<"a", "b", "c">>) : is_dir(fs, q)
    /\ is_file(fs, <<"a", "b", "c", "v.svg">>)

\* the destination directory existed before and the build placed out/v.svg
C15_WitnessExisting ==
    /\ fs0 = Put(EmptyDict, <<"out">>, Dir)
    /\ Has("place_ok")
    /\ is_file(fs, <<"out", "v.svg">>)


\* C16: placement is a move: once the move has completed, the rendered
\* artifact is a file at the resolved destination path holding the rendered
\* text, and diagram.svg is no longer in the temporary working area.
C16_MoveNotCopy ==
    (cmd = "build" /\ (cyc = "store" \/ Has("place_ok"))) =>
        /\ is_file(fs, svg_file_path)
        /\ fs[svg_file_path].content = <<last_svg>>
        /\ "diagram.svg" \notin DOMAIN tmp_folder.files


\* the first generate+render cycle of dev has completed successfully
FirstCycleOk ==
    /\ Len(log) >= 5
    /\ SubSeq(log, 1, 5) =
          <<"cycle_start", "gen_ok", "render_start", "render_ok", "cycle_ok">>

\* C17: in dev the preview server is launched at most once, in the step that
\* engages the watcher, and only when the first cycle has completed
\* successfully; when the first cycle fails there is no server and no
\* watcher; a rebuild never launches a server, and a rebuild that succeeds
\* leaves the rendered text in diagram.svg of the same served directory,
\* next to index.html.
C17_ServerOnce ==
    /\ [](server <= 1)
    /\ [](server = 1 => (cmd = "dev" /\ FirstCycleOk))
    /\ [](watcher # "off" => server = 1)
    /\ []((cmd = "dev" /\ pc = "exited" /\ ~FirstCycleOk) =>
            (server = 0 /\ watchSet = EmptyDict /\ Count("cycle_start") = 1))
    /\ [][server' # server =>
            (server = 0 /\ pc = "launch" /\ watcher = "off" /\ watcher' = "watching")]_vars
    /\ [][(ReArm /\ log'[Len(log')] = "cycle_ok") =>
            /\ server' = 1
            /\ tmp_folder'.exists
            /\ DOMAIN tmp_folder'.files = {"index.html", "diagram.svg"}
            /\ tmp_folder'.files["diagram.svg"] = <<last_svg'>>]_vars

\* the server was launched once and two rebuilds have overwritten the served
\* file since
C17_Witness ==
    /\ pc = "observing"
    /\ server = 1
    /\ cycle = 3
    /\ Count("render_ok") = 3
    /\ watcher = "watching"
    /\ tmp_folder.files["diagram.svg"] = <<last_svg>>

\* the first cycle of dev failed: no server, no watcher
C17_WitnessFirstFails ==
    /\ cmd = "dev"
    /\ pc = "exited"
    /\ log = <<"cycle_start", "gen_ok", "render_start", "render_fail", "cycle_fail">>
    /\ server = 0


\* C18: once the watcher is engaged the watch loop does not finish on its
\* own: whatever file changes arrive and however the rebuilds end, the
\* command leaves the watch loop only in a step that is the external
\* cancellation, and until then the watcher is watching or rebuilding.
C18_NoSelfTermination ==
    /\ [][(pc = "observing" /\ pc' # "observing") =>
            (pc' = "exited" /\ error' = "KeyboardInterrupt"
                /\ log'[Len(log')] = "cancelled")]_vars
    /\ [](pc = "observing" => (watcher \in {"watching", "triggered"} /\ error = "none"))
    /\ []((cmd = "dev" /\ pc = "exited" /\ server = 1) =>
            (error = "KeyboardInterrupt" /\ log[Len(log)] = "cancelled"))
    /\ [][(pc = "observing" /\ watcher = "triggered" /\ watcher' # "triggered") =>
            (pc' = "observing" /\ watcher' = "watching") \/ error' = "KeyboardInterrupt"]_vars

\* the loop is still watching after a failed rebuild, a successful one and
\* every file change the bounds allow
C18_Witness ==
    /\ pc = "observing"
    /\ watcher = "watching"
    /\ cycle = 1 + MaxRebuilds
    /\ Has("cycle_fail")
    /\ Count("cycle_ok") >= 2
    /\ changes = MaxChanges


\* the events of the cycle that is running or ended last
LastCycle ==
    LET starts == { i \in 1..Len(log) : log[i] = "cycle_start" }
        from == CHOOSE i \in starts : \A j \in starts : j <= i
    IN  SubSeq(log, from, Len(log))

\* C19: a rebuild in dev that fails leaves the served files as they were,
\* diagram.svg holding the text of the last successful render: a failed
\* generation is not followed by a render in that cycle, and a render that
\* fails has not opened diagram.svg.
C19_FailedRebuildKeepsArtifact ==
    /\ [][RebuildFails =>
            /\ tmp_folder' = tmp_folder
            /\ tmp_folder.files["diagram.svg"] = <<last_svg>>
            /\ last_svg' = last_svg]_vars
    /\ []((cmd = "dev" /\ Has("cycle_start")) =>
            LET c == LastCycle
            IN  /\ (\E i \in 1..Len(c) : c[i] = "gen_fail") =>
                      ~ \E i \in 1..Len(c) : c[i] = "render_start"
                /\ (\E i \in 1..Len(c) : c[i] = "render_fail") =>
                      ~ \E i \in 1..Len(c) : c[i] = "render_ok")
    /\ []((pc = "observing" /\ cyc \in {"gen", "post", "await_post"}) =>
            tmp_folder.files["diagram.svg"] = <<last_svg>>)

\* a rebuild whose render was refused has ended and the served file still
\* holds the last rendered text, while the sources have changed since
C19_Witness ==
    /\ pc = "observing"
    /\ watcher = "watching"
    /\ Len(log) >= 2
    /\ log[Len(log)] = "cycle_fail"
    /\ log[Len(log) - 1] = "render_fail"
    /\ last_svg # ""
    /\ tmp_folder.files["diagram.svg"] = <<last_svg>>

\* a rebuild whose generation failed has ended the same way
C19_WitnessGeneration ==
    /\ pc = "observing"
    /\ watcher = "watching"
    /\ Len(log) >= 2
    /\ log[Len(log)] = "cycle_fail"
    /\ log[Len(log) - 1] = "gen_fail"
    /\ tmp_folder.files["diagram.svg"] = <<last_svg>>


\* the lines of standard output that are a result path
ResultLines == { i \in 1..Len(stdout) : stdout[i] = path_str(svg_file_path) }

\* C20: build stores the output path in the chain context and prints it
\* only after the move succeeded, the stored path is the printed path and
\* the path the artifact was moved to; a build that failed has stored and
\* printed no path, and nothing changes in the file system after the
\* failure.
C20_StoredPathIsArtifact ==
    /\ []((cmd = "build" /\ "svg_file_path" \in DOMAIN ctx_obj) =>
            /\ Has("place_ok")
            /\ ctx_obj["svg_file_path"] = svg_file_path
            /\ ResultLines # {}
            /\ moved_to = <<ctx_obj["svg_file_path"]>>)
    /\ []((cmd = "build" /\ ~Has("place_ok")) =>
            (ctx_obj = EmptyDict /\ (svg_file_path # <<>> => ResultLines = {})))
    /\ []((cmd = "build" /\ Has("cycle_fail")) =>
            (ctx_obj = EmptyDict /\ uploaded = None /\ pc = "exited"))
    /\ [][(cmd = "build" /\ pc = "exited") => fs' = fs]_vars

====
